---- MODULE Spec2Model ----
(***************************************************************************)
(* Release synchronisation and retention engine of backup_github           *)
(* (src/backup.py, src/config.py).                                         *)
(*                                                                         *)
(* Strings are sequences of characters.  A character is a one-letter TLA+  *)
(* string; a few longer atoms ("downloads", "version.txt", ...) stand for  *)
(* a run of ordinary characters that no operation of the program splits.   *)
(* A path on disk is the sequence of its component names from the file     *)
(* system root; the file system is a function from the existing paths to   *)
(* their nodes.                                                            *)
(***************************************************************************)
EXTENDS Integers, Sequences, FiniteSets, TLC

VARIABLES
    fs,       \* the file system: [path -> node]
    now,      \* the file-system clock that stamps modification times
    cfg,      \* the configuration module seen by backup.py
    remote,   \* per repository: the releases the remote side may report
    pc,       \* position of the single thread of control
    run,      \* number of program runs started so far
    idx,      \* monitor_repos: index in REPOS of the current repository
    attempt,  \* get_latest_release: the loop variable `attempt`
    rel,      \* download_source_code: latest_tag (tag_name and assets)
    ak,       \* download_source_code: index of the current asset
    dl,       \* download_file_with_progress: the call in progress
    cyc,      \* record of the current (or the last finished) cycle
    last,     \* per repository: summary of its previous finished cycle
    started,  \* monitor_repos: repositories whose cycle started in this run
    rmlog,    \* record of the last safe_remove_dir call
    prune     \* record of the last clean_old_versions call

vars == <<fs, now, cfg, remote, pc, run, idx, attempt, rel, ak, dl, cyc, last,
          started, rmlog, prune>>

-----------------------------------------------------------------------------
(* Bounds of the model *)

\* largest value of the file-system clock
MaxClock == 1
\* number of program runs (invocations of monitor_repos) explored
MaxRuns == 2
\* number of chunks a response body is streamed in
NumChunks == 2

-----------------------------------------------------------------------------
(* Strings *)

\* U+00A0, a whitespace character that git allows in a tag name
NBSP == "~"
Whitespace == {" ", NBSP}

\* code points, for Python's string comparison
Ord(c) ==
    CASE c = " " -> 32
      [] c = "." -> 46
      [] c = "/" -> 47
      [] c = "1" -> 49
      [] c = "2" -> 50
      [] c = "_" -> 95
      [] c = "a" -> 97
      [] c = "b" -> 98
      [] c = "o" -> 111
      [] c = "v" -> 118
      [] c = "w" -> 119
      [] c = "x" -> 120
      [] c = NBSP -> 160
      [] c = "cwd" -> 99
      [] c = "downloads" -> 100
      [] c = "version.txt" -> 118
      [] c = "source.zip" -> 115
      [] OTHER -> 63

\* Python's s < t on strings
RECURSIVE StrLess(_, _)
StrLess(s, t) ==
    IF t = <<>> THEN FALSE
    ELSE IF s = <<>> THEN TRUE
    ELSE IF Ord(Head(s)) # Ord(Head(t)) THEN Ord(Head(s)) < Ord(Head(t))
    ELSE StrLess(Tail(s), Tail(t))

\* str.startswith
StartsWith(s, p) == Len(s) >= Len(p) /\ SubSeq(s, 1, Len(p)) = p

\* str.replace('/', '_')
ReplaceSlash(s) == [j \in 1..Len(s) |-> IF s[j] = "/" THEN "_" ELSE s[j]]

\* str.strip()
RECURSIVE LStrip(_)
LStrip(s) ==
    IF s # <<>> /\ Head(s) \in Whitespace THEN LStrip(Tail(s)) ELSE s
RECURSIVE RStrip(_)
RStrip(s) ==
    IF s # <<>> /\ s[Len(s)] \in Whitespace
    THEN RStrip(SubSeq(s, 1, Len(s) - 1)) ELSE s
Strip(s) == RStrip(LStrip(s))

\* str.split('/')
RECURSIVE Split(_)
Split(s) ==
    IF \A j \in 1..Len(s) : s[j] # "/" THEN <<s>>
    ELSE LET j == CHOOSE m \in 1..Len(s) :
                      s[m] = "/" /\ \A n \in 1..(m - 1) : s[n] # "/"
         IN  <<SubSeq(s, 1, j - 1)>> \o Split(SubSeq(s, j + 1, Len(s)))

\* repo.split('/')[-1]
RepoName(repo) == LET p == Split(repo) IN p[Len(p)]

\* os.path.join(a, b) on POSIX
Join(a, b) ==
    IF b # <<>> /\ Head(b) = "/" THEN b
    ELSE IF a = <<>> \/ a[Len(a)] = "/" THEN a \o b
    ELSE a \o <<"/">> \o b

Dot == <<".">>
DotDot == <<".", ".">>

-----------------------------------------------------------------------------
(* Paths *)

\* the working directory of the process
CWD == <<<<"cwd">>>>

Parent(p) == IF p = <<>> THEN <<>> ELSE SubSeq(p, 1, Len(p) - 1)

IsPrefix(p, q) == Len(p) <= Len(q) /\ SubSeq(q, 1, Len(p)) = p

\* posixpath.normpath applied to the components of an absolute path
RECURSIVE NormFrom(_, _)
NormFrom(acc, comps) ==
    IF comps = <<>> THEN acc
    ELSE LET c == Head(comps) IN
         IF c = <<>> \/ c = Dot THEN NormFrom(acc, Tail(comps))
         ELSE IF c = DotDot THEN NormFrom(Parent(acc), Tail(comps))
         ELSE NormFrom(Append(acc, c), Tail(comps))

\* os.path.abspath: the normalised absolute path, as components
abspath(s) ==
    IF s # <<>> /\ Head(s) = "/" THEN NormFrom(<<>>, Split(s))
    ELSE NormFrom(CWD, Split(s))

\* the string of an absolute path
RECURSIVE PathStr(_)
PathStr(p) ==
    IF p = <<>> THEN <<>> ELSE <<"/">> \o Head(p) \o PathStr(Tail(p))
AbsStr(s) == LET p == abspath(s) IN IF p = <<>> THEN <<"/">> ELSE PathStr(p)

-----------------------------------------------------------------------------
(* File system *)

DirNode(t) == [kind |-> "dir", mtime |-> t, text |-> <<>>, src |-> <<>>, n |-> 0]
\* a text file (version.txt) holding `text`
TextNode(text) ==
    [kind |-> "file", mtime |-> 0, text |-> text, src |-> <<>>, n |-> 0]
\* a downloaded file: the first n chunks of the body of resource `src`
DataNode(src, n) ==
    [kind |-> "file", mtime |-> 0, text |-> <<>>, src |-> src, n |-> n]

Exists(f, p) == p \in DOMAIN f
IsDir(f, p) == p \in DOMAIN f /\ f[p].kind = "dir"
IsFile(f, p) == p \in DOMAIN f /\ f[p].kind = "file"

NoPath == <<<<"?">>>>

\* the kernel's resolution of a path: every component walked must be an
\* existing directory ("a/b/.." needs a/b); NoPath when the walk fails
RECURSIVE Walk(_, _, _)
Walk(f, cur, comps) ==
    IF comps = <<>> THEN cur
    ELSE IF ~IsDir(f, cur) THEN NoPath
    ELSE LET c == Head(comps) IN
         IF c = <<>> \/ c = Dot THEN Walk(f, cur, Tail(comps))
         ELSE IF c = DotDot THEN Walk(f, Parent(cur), Tail(comps))
         ELSE Walk(f, Append(cur, c), Tail(comps))

Resolve(f, s) ==
    IF s # <<>> /\ Head(s) = "/" THEN Walk(f, <<>>, Split(s))
    ELSE Walk(f, CWD, Split(s))

\* os.path.exists / os.path.isdir on a path string
PathExists(f, s) == Resolve(f, s) # NoPath /\ Exists(f, Resolve(f, s))
PathIsDir(f, s) == Resolve(f, s) # NoPath /\ IsDir(f, Resolve(f, s))

\* a directory's modification time changes when an entry is added or removed
Touch(f, p, t) ==
    IF IsDir(f, p) THEN [f EXCEPT ![p].mtime = t] ELSE f

\* add (or replace) the node at p
Put(f, p, node, t) ==
    LET g == [q \in DOMAIN f \cup {p} |-> IF q = p THEN node ELSE f[q]]
    IN  IF Exists(f, p) THEN g ELSE Touch(g, Parent(p), t)

\* remove p and everything below it
DelTree(f, p, t) ==
    LET keep == {q \in DOMAIN f : ~IsPrefix(p, q)}
    IN  Touch([q \in keep |-> f[q]], Parent(p), t)

\* immediate entries of directory p (os.listdir)
Entries(f, p) == {q \in DOMAIN f : Len(q) = Len(p) + 1 /\ IsPrefix(p, q)}

-----------------------------------------------------------------------------
(* Configuration (src/config.py) *)

DOWNLOAD_DIR == <<"downloads">>
MAX_DOWNLOAD_ATTEMPTS == 3
RETRY_DELAY == 5

RepoW == <<"o", "/", "w">>
RepoX == <<"o", "/", "x">>
\* lists of monitored repositories: one repository, as config.py ships,
\* or two
RepoLists == {<<RepoW>>, <<RepoW, RepoX>>}

\* config.py as shipped defines neither CLEAN_OLD_VERSIONS nor
\* KEEP_VERSIONS_COUNT: reading either name raises NameError
ShippedConfig ==
    [clean |-> "undef", keepDefined |-> FALSE, keep |-> 0, repos |-> <<RepoW>>]

\* keep-counts a deployment may configure
KeepCounts == {-1, 0, 1, 2}

\* a configuration that defines both names
SuppliedConfigs ==
    [clean : {"on", "off"}, keepDefined : {TRUE}, keep : KeepCounts,
     repos : RepoLists]

-----------------------------------------------------------------------------
(* os.makedirs(name, exist_ok=True) *)

\* posixpath.split: <<head, tail>>
PSplit(s) ==
    LET slashes == {j \in 1..Len(s) : s[j] = "/"}
        cut == IF slashes = {} THEN 0
               ELSE CHOOSE j \in slashes : \A m \in slashes : m <= j
        h == SubSeq(s, 1, cut)
        tl == SubSeq(s, cut + 1, Len(s))
        hd == IF h # <<>> /\ \E j \in 1..Len(h) : h[j] # "/"
              THEN SubSeq(h, 1, Len(h) - 1) ELSE h
    IN  <<hd, tl>>

\* os.mkdir(name), then makedirs' handler: with exist_ok an existing
\* directory is accepted; envOk = FALSE is the operating system refusing
mkdir_exist_ok(f, s, t, envOk) ==
    LET hd == PSplit(s)[1]
        tl == PSplit(s)[2]
        par == IF hd = <<>> THEN CWD ELSE Resolve(f, hd)
        child == Append(par, tl)
    IN  IF par = NoPath \/ ~IsDir(f, par)
        THEN [fs |-> f, err |-> "OSError"]
        ELSE IF tl = Dot \/ tl = DotDot \/ tl = <<>>
        THEN [fs |-> f, err |-> "none"]
        ELSE IF Exists(f, child)
        THEN [fs |-> f, err |-> IF IsDir(f, child) THEN "none" ELSE "OSError"]
        ELSE IF ~envOk
        THEN [fs |-> f, err |-> "OSError"]
        ELSE [fs |-> Put(f, child, DirNode(t), t), err |-> "none"]

RECURSIVE makedirs(_, _, _, _)
makedirs(f, s, t, envOk) ==
    LET p1 == PSplit(s)
        p2 == IF p1[2] = <<>> THEN PSplit(p1[1]) ELSE p1
        hd == p2[1]
        tl == p2[2]
    IN  IF hd # <<>> /\ tl # <<>> /\ ~PathExists(f, hd)
        THEN LET r == makedirs(f, hd, t, envOk) IN
             IF r.err # "none" THEN r
             ELSE IF tl = Dot THEN r
             ELSE mkdir_exist_ok(r.fs, s, t, envOk)
        ELSE mkdir_exist_ok(f, s, t, envOk)

-----------------------------------------------------------------------------
(* safe_remove_dir *)

\* what the file system lets a recursive delete of one directory do:
\*   ok          shutil.rmtree succeeds
\*   unlistable  os.listdir raises PermissionError
\*   oserror     shutil.rmtree raises an error other than PermissionError
\*   readonly    rmtree raises PermissionError, the retry with
\*               remove_readonly clears the attributes and succeeds
\*   stuck       as readonly, but remove_readonly fails on an entry: it
\*               swallows the error and the retry returns normally
\*   os_ok       both rmtree calls raise, the OS command removes the tree
\*   os_fail     both raise, the OS command exits non-zero
\*   os_exc      both raise, running the OS command raises
RmOutcomes ==
    {"ok", "unlistable", "oserror", "readonly", "stuck",
     "os_ok", "os_fail", "os_exc"}

RmResult(f, exc, tried) == [fs |-> f, exc |-> exc, tried |-> tried]

\* the sandbox test of lines 126-131
InSandbox(s) == StartsWith(AbsStr(s), AbsStr(DOWNLOAD_DIR))

safe_remove_dir(f, s, t, o) ==
    LET p == abspath(s)
        gone == DelTree(f, p, t)
    IN  IF ~InSandbox(s) THEN RmResult(f, "SecurityError", <<>>)
        ELSE IF ~Exists(f, p) THEN RmResult(f, "none", <<>>)
        ELSE IF IsFile(f, p) THEN RmResult(f, "OSError", <<>>)
        ELSE IF o = "unlistable" THEN RmResult(f, "none", <<>>)
        ELSE IF o = "ok" THEN RmResult(gone, "none", <<"rmtree">>)
        ELSE IF o = "oserror" THEN RmResult(f, "OSError", <<"rmtree">>)
        ELSE IF o = "readonly"
        THEN RmResult(gone, "none", <<"rmtree", "rmtree_onerror">>)
        ELSE IF o = "stuck"
        THEN RmResult(f, "none", <<"rmtree", "rmtree_onerror">>)
        ELSE IF o = "os_ok"
        THEN RmResult(gone, "none", <<"rmtree", "rmtree_onerror", "oscmd">>)
        ELSE IF o = "os_fail"
        THEN RmResult(f, "none", <<"rmtree", "rmtree_onerror", "oscmd">>)
        ELSE RmResult(f, "OSError", <<"rmtree", "rmtree_onerror", "oscmd">>)

-----------------------------------------------------------------------------
(* Version store *)

RepoDir(repo) == Join(DOWNLOAD_DIR, RepoName(repo))
VersionFile(repo) == Join(RepoDir(repo), <<"version.txt">>)

None == [some |-> FALSE, val |-> <<>>]
Some(v) == [some |-> TRUE, val |-> v]
\* Python's truth value of an Optional[str]
Truthy(x) == x.some /\ x.val # <<>>

\* the text as read back from the file, without the trim
get_local_version_raw(f, repo, readOk) ==
    LET p == Resolve(f, VersionFile(repo)) IN
    IF p = NoPath \/ ~Exists(f, p) THEN None
    ELSE IF IsDir(f, p) \/ ~readOk THEN None
    ELSE Some(f[p].text)

get_local_version(f, repo, readOk) ==
    LET p == Resolve(f, VersionFile(repo)) IN
    IF p = NoPath \/ ~Exists(f, p) THEN None
    ELSE IF IsDir(f, p) \/ ~readOk THEN None
    ELSE Some(Strip(f[p].text))

\* environment of one write of version.txt
SaveOutcomes == {"ok", "mkfail", "openfail", "writefail"}

\* save_local_version: every error is caught and logged; failed tells
\* whether that handler ran
save_local_version(f, repo, version, t, o) ==
    LET md == makedirs(f, PSplit(VersionFile(repo))[1], t, o # "mkfail")
        p == Resolve(md.fs, VersionFile(repo))
    IN  IF md.err # "none" THEN [fs |-> md.fs, failed |-> TRUE]
        ELSE IF p = NoPath \/ IsDir(md.fs, p) \/ o = "openfail"
        THEN [fs |-> md.fs, failed |-> TRUE]
        ELSE IF o = "writefail"
        THEN [fs |-> Put(md.fs, p, TextNode(<<>>), t), failed |-> TRUE]
        ELSE [fs |-> Put(md.fs, p, TextNode(version), t), failed |-> FALSE]

-----------------------------------------------------------------------------
(* clean_old_versions *)

\* the tuple (mtime, item, item_path) the code collects for a directory
DirEntry(f, repo, q) ==
    [mtime |-> f[q].mtime, item |-> q[Len(q)],
     path |-> Join(RepoDir(repo), q[Len(q)])]

\* the subdirectories of the repository root, as collected by the scan
VersionDirs(f, repo) ==
    LET root == Resolve(f, RepoDir(repo)) IN
    {DirEntry(f, repo, q) : q \in {e \in Entries(f, root) : IsDir(f, e)}}

\* Python's tuple order on (mtime, item, ...)
EntryLess(a, b) ==
    \/ a.mtime < b.mtime
    \/ a.mtime = b.mtime /\ StrLess(a.item, b.item)

\* list.sort(reverse=True)
RECURSIVE SortReverse(_)
SortReverse(S) ==
    IF S = {} THEN <<>>
    ELSE LET m == CHOOSE x \in S : \A y \in S \ {x} : EntryLess(y, x)
         IN  <<m>> \o SortReverse(S \ {m})

\* Python's L[k:], also for negative k
SliceFrom(L, k) ==
    IF k >= 0 THEN SubSeq(L, (IF k < Len(L) THEN k ELSE Len(L)) + 1, Len(L))
    ELSE SubSeq(L, (IF Len(L) + k > 0 THEN Len(L) + k ELSE 0) + 1, Len(L))

\* a slice that keeps one entry too many
KeepOneMore(L, k) == SliceFrom(L, k + 1)

\* version_dirs[KEEP_VERSIONS_COUNT:]
delete_versions(L, k) == SliceFrom(L, k)

\* a loop over n entries that the first failed deletion ends
StopsOnError(j, n, exc) == IF exc = "none" THEN j + 1 ELSE n + 1

\* lines 287-288: the handler logs the exception of one deletion and the
\* for loop takes the next entry
NextEntry(j, n, exc) == j + 1

\* the loop of lines 282-288: one safe_remove_dir per entry, in list order,
\* every exception caught; env[j] is what the file system does to entry j
RECURSIVE PruneLoop(_, _, _, _, _)
PruneLoop(f, dels, j, t, env) ==
    IF j > Len(dels) THEN [fs |-> f, calls |-> <<>>]
    ELSE LET r == safe_remove_dir(f, dels[j].path, t, env[j])
             more == PruneLoop(r.fs, dels, NextEntry(j, Len(dels), r.exc),
                               t, env)
         IN  [fs |-> more.fs,
              calls |-> <<[item |-> dels[j].item, exc |-> r.exc,
                           tried |-> r.tried]>> \o more.calls]

NoPrune(f, exc, why) ==
    [fs |-> f, exc |-> exc, why |-> why, sorted |-> <<>>, calls |-> <<>>]

\* lines 243-246: clean_old_versions gives up for want of a current version
SkipWithoutVersion(current) == ~Truthy(current)

\* clean_old_versions(repo) under configuration c; exc is "NameError" when
\* line 229 reads a name config.py does not define, "none" otherwise
clean_old_versions(f, repo, c, t, readOk, env) ==
    LET root == Resolve(f, RepoDir(repo))
        dirs == VersionDirs(f, repo)
        L == SortReverse(dirs)
        dels == delete_versions(L, c.keep)
        loop == PruneLoop(f, dels, 1, t, env)
    IN  IF c.clean = "undef" THEN NoPrune(f, "NameError", "config")
        ELSE IF c.clean = "off" THEN NoPrune(f, "none", "disabled")
        ELSE IF root = NoPath \/ ~Exists(f, root)
        THEN NoPrune(f, "none", "no_repo_dir")
        ELSE IF SkipWithoutVersion(get_local_version(f, repo, readOk))
        THEN NoPrune(f, "none", "no_version")
        ELSE IF ~c.keepDefined \/ ~IsDir(f, root)
        THEN NoPrune(f, "none", "error")
        ELSE IF Cardinality(dirs) <= c.keep
        THEN NoPrune(f, "none", "few")
        ELSE [fs |-> loop.fs, exc |-> "none", why |-> "pruned",
              sorted |-> L, calls |-> loop.calls]

-----------------------------------------------------------------------------
(* What the remote side can answer *)

TagV1 == <<"v", "1">>
TagV2 == <<"v", "2">>
TagSlash == <<"a", "/", "b">>
TagSpace == <<"v", "1", NBSP>>
TagDots == DotDot

AssetA == [name |-> <<"a">>, url |-> <<"u", "a">>]
AssetB == [name |-> <<"b">>, url |-> <<"u", "b">>]

Release(tag, assets) == [tag_name |-> tag, assets |-> assets]

\* releases the remote side may report as latest: with and without
\* assets, tags with a path separator, with surrounding whitespace, ".."
AllReleases ==
    {Release(TagV1, <<>>), Release(TagV2, <<AssetA, AssetB>>),
     Release(TagSlash, <<>>), Release(TagSpace, <<>>), Release(TagDots, <<>>)}

\* a tag, and the same tag followed by a whitespace character
TwinReleases == {Release(TagV1, <<>>), Release(TagSpace, <<>>)}

\* what the second repository's remote side reports
OtherReleases == {Release(TagV1, <<>>), Release(TagDots, <<>>)}

RemoteOf(first) == [r \in {<<"o", "/", "w">>, <<"o", "/", "x">>} |->
                      IF r = <<"o", "/", "w">> THEN first ELSE OtherReleases]

NoRelease == [tag_name |-> <<>>, assets |-> <<>>]

\* line 328: the source archive's URL
ArchiveUrl(repo, tag) == <<"codeload:">> \o repo \o <<"/zip/refs/tags/">> \o tag

safe_tag_name(tag) == ReplaceSlash(tag)
\* line 313
version_folder(repo, tag) == Join(RepoDir(repo), safe_tag_name(tag))
\* line 329
zip_path(repo, tag) ==
    Join(version_folder(repo, tag),
         RepoName(repo) \o <<"_">> \o safe_tag_name(tag) \o <<"_", "source.zip">>)

-----------------------------------------------------------------------------
(* Initial states *)

Downloads == abspath(DOWNLOAD_DIR)

\* the disk after _ensure_download_dir on a fresh working directory
EmptyDisk ==
    [q \in {<<>>, CWD, Downloads} |-> DirNode(0)]

\* the disk left by earlier runs: release v1 of the first repository is
\* mirrored, and a later run was interrupted while it fetched v2
MirroredDisk ==
    LET root == abspath(RepoDir(RepoW))
        vdir == abspath(version_folder(RepoW, TagV1))
        zip == abspath(zip_path(RepoW, TagV1))
        ver == abspath(VersionFile(RepoW))
        vdir2 == abspath(version_folder(RepoW, TagV2))
        zip2 == abspath(zip_path(RepoW, TagV2))
    IN  [q \in {<<>>, CWD, Downloads, root, vdir, zip, ver, vdir2, zip2} |->
            IF q = zip THEN DataNode(ArchiveUrl(RepoW, TagV1), NumChunks)
            ELSE IF q = zip2 THEN DataNode(ArchiveUrl(RepoW, TagV2), 0)
            ELSE IF q = ver THEN TextNode(TagV1)
            ELSE DirNode(0)]

NoCall == [path |-> <<>>, env |-> "none", exc |-> "none", tried |-> <<>>,
           before |-> EmptyDisk, made |-> FALSE]
NoPruneLog == [repo |-> <<>>, why |-> "none", exc |-> "none", before |-> EmptyDisk,
               sorted |-> <<>>, calls |-> <<>>, env |-> <<>>, readOk |-> TRUE,
               made |-> FALSE]
NoDownload == [dest |-> <<>>, url |-> <<>>, n |-> 0, what |-> "none"]
\* the last call of download_file_with_progress that came back: its
\* destination, its URL, how it ended, and whether a file was at the
\* destination when it ended or when its handler ran
NoReturn == [some |-> FALSE, dest |-> <<>>, url |-> <<>>, res |-> "none",
             opened |-> FALSE]
\* an exception that left download_source_code: its class, and the
\* repository its message names
NoError == [kind |-> "none", repo |-> <<>>]
Raised(kind, repo) == [kind |-> kind, repo |-> repo]
NoCycle ==
    [repo |-> <<>>, tag |-> <<>>, verBefore |-> None, polled |-> "none",
     unchanged |-> FALSE, readFault |-> FALSE, archive |-> "none", assets |-> <<>>,
     fetches |-> <<>>, mkdirs |-> 0, saveEnv |-> "none", writes |-> 0,
     cleaned |-> 0, cleanedAfterWrite |-> FALSE, rolled |-> FALSE,
     ret |-> NoReturn, waits |-> <<>>, raised |-> NoError,
     staleRm |-> "none", listed |-> <<>>,
     result |-> "none", done |-> FALSE]
NoLast == [some |-> FALSE, tag |-> <<>>, committed |-> FALSE, result |-> "none"]

\* the configurations the cycles are explored under: the shipped one, and
\* retention switched on with keep-count 0 or 1
CycleConfigs ==
    {ShippedConfig} \cup
    {[ShippedConfig EXCEPT !.repos = <<RepoW, RepoX>>]} \cup
    {c \in SuppliedConfigs : c.clean = "on" /\ c.keep \in {0, 1}}

REPOS == cfg.repos
RepoSet == {RepoW, RepoX}

\* nothing has run yet
Idle ==
    /\ now = 0
    /\ run = 1
    /\ idx = 1
    /\ attempt = 0
    /\ rel = NoRelease
    /\ ak = 0
    /\ dl = NoDownload
    /\ cyc = NoCycle
    /\ last = [r \in RepoSet |-> NoLast]
    /\ started = <<>>
    /\ rmlog = NoCall
    /\ prune = NoPruneLog

\* the program starts on `disk`, with repository list `repos`, and the
\* first repository's remote side reports `releases`
InitOf(disk, repos, releases) ==
    /\ fs = disk
    /\ cfg \in {c \in CycleConfigs : c.repos = repos}
    /\ remote = RemoteOf(releases)
    /\ pc = "loop"
    /\ Idle

\* a run on the disk of earlier runs
Init == InitOf(MirroredDisk, <<RepoW>>, AllReleases)

-----------------------------------------------------------------------------
(* monitor_repos and the cycle of one repository *)

Repo == REPOS[idx]

\* a loop that an exception of one cycle ends
AbortOnError(i, res) == IF res = "exc" THEN Len(REPOS) + 1 ELSE i + 1

\* lines 373-379: the handlers log and `continue`; whatever the outcome of
\* the cycle, the for loop goes on with the next repository
NextIndex(i, res) == i + 1

\* the cycle of the current repository ends with `res`: "True", "False",
\* "None" (the function falls off its end) or "exc" (an exception reaches
\* monitor_repos, which logs it and continues with the next repository)
EndCycle(c, res) ==
    /\ cyc' = [c EXCEPT !.result = res, !.done = TRUE]
    /\ pc' = "loop"
    /\ idx' = NextIndex(idx, res)
    /\ attempt' = 0
    /\ rel' = NoRelease
    /\ ak' = 0
    /\ dl' = NoDownload
    /\ last' = [last EXCEPT ![Repo] =
                   [some |-> TRUE, tag |-> c.tag,
                    committed |-> c.writes > 0 /\ c.saveEnv = "ok",
                    result |-> res]]

\* lines 369-372: the for loop takes the next repository, or ends
LoopNext ==
    /\ pc = "loop"
    /\ IF idx <= Len(REPOS)
       THEN /\ pc' = "poll"
            /\ started' = Append(started, Repo)
            /\ cyc' = [NoCycle EXCEPT
                          !.repo = Repo,
                          !.verBefore = get_local_version_raw(fs, Repo, TRUE)]
       ELSE /\ pc' = "finished"
            /\ UNCHANGED <<started, cyc>>
    /\ UNCHANGED <<fs, now, cfg, remote, run, idx, attempt, rel, ak, dl, last, rmlog,
                   prune>>

\* a delay that does not grow with the attempts
FlatDelay(k) == RETRY_DELAY

\* line 108: the delay after the failed pass number k of the loop (k = 0
\* for the first pass)
wait_time(k) == RETRY_DELAY * (k + 1)

\* get_latest_release returns or raises: its loop variable and the sleeps
\* of the call are gone; `how` is what the caller got
PollEnds(c, how) == [c EXCEPT !.polled = how, !.waits = <<>>]

\* lines 92-104: a pass of the retry loop of get_latest_release gets an
\* answer that carries a tag_name, and the function returns it
PollRelease ==
    /\ pc = "poll"
    /\ \E r \in remote[Repo] :
          /\ rel' = r
          /\ cyc' = [PollEnds(cyc, "release") EXCEPT !.tag = r.tag_name,
                                                     !.listed = r.assets]
          /\ pc' = "compare"
    /\ attempt' = 0
    /\ UNCHANGED <<fs, now, cfg, remote, run, idx, ak, dl, last, started,
                   rmlog, prune>>

\* a test that takes any answer for a release
AnyAnswer(latest) == TRUE

\* line 299: `if latest_tag:`
HasRelease(latest) == latest # NoRelease

\* lines 98-105: the answer carries no tag_name (the key is missing, null
\* or empty) and get_latest_release returns None; lines 299 and 361-363:
\* download_source_code logs and returns False
PollAbsent ==
    /\ pc = "poll"
    /\ IF HasRelease(NoRelease)
       THEN /\ rel' = NoRelease
            /\ cyc' = PollEnds(cyc, "absent")
            /\ pc' = "compare"
            /\ attempt' = 0
            /\ UNCHANGED <<idx, last, ak, dl>>
       ELSE EndCycle(PollEnds(cyc, "absent"), "False")
    /\ UNCHANGED <<fs, now, cfg, remote, run, started, rmlog, prune>>

\* lines 106-112: the request fails; sleep and retry, or raise NetworkError
PollError ==
    /\ pc = "poll"
    /\ IF attempt < MAX_DOWNLOAD_ATTEMPTS - 1
       THEN /\ attempt' = attempt + 1
            /\ cyc' = [cyc EXCEPT !.waits = Append(@, wait_time(attempt))]
            /\ UNCHANGED <<pc, idx, last, rel, ak, dl>>
       ELSE EndCycle([PollEnds(cyc, "neterror") EXCEPT
                         !.raised = Raised("NetworkError", Repo)], "exc")
    /\ UNCHANGED <<fs, now, cfg, remote, run, started, rmlog, prune>>

\* lines 306-316: compare with the stored version, decide what to do
Compare ==
    /\ pc = "compare"
    /\ \E readOk \in BOOLEAN :
          IF get_local_version(fs, Repo, readOk) = Some(rel.tag_name)
          THEN /\ pc' = "clean_same"
               /\ cyc' = [cyc EXCEPT !.unchanged = TRUE, !.readFault = ~readOk]
          ELSE /\ pc' = IF PathExists(fs, version_folder(Repo, rel.tag_name))
                        THEN "stage_rm" ELSE "stage_mk"
               /\ cyc' = [cyc EXCEPT !.readFault = ~readOk]
    /\ UNCHANGED <<fs, now, cfg, remote, run, idx, attempt, rel, ak, dl, last, started,
                   rmlog, prune>>

\* how the call of line 319 ended: it raised, or it returned with the
\* directory removed or still there
StaleOutcome(f, vf, exc) ==
    IF exc # "none" THEN "raised"
    ELSE IF PathExists(f, vf) THEN "kept" ELSE "removed"

\* lines 316-322: a directory of that name exists: delete it first
StageRemove ==
    /\ pc = "stage_rm"
    /\ \E o \in RmOutcomes :
          LET vf == version_folder(Repo, rel.tag_name)
              r == safe_remove_dir(fs, vf, now, o)
              c == [cyc EXCEPT !.staleRm = StaleOutcome(r.fs, vf, r.exc)]
          IN  /\ fs' = r.fs
              /\ IF r.exc # "none"
                 THEN EndCycle(c, "False")
                 ELSE /\ pc' = "stage_mk"
                      /\ cyc' = c
                      /\ UNCHANGED <<idx, last, attempt, rel, ak, dl>>
    /\ UNCHANGED <<now, cfg, remote, run, started, rmlog, prune>>

StartFetch(c, dest, url, what) ==
    /\ dl' = [dest |-> dest, url |-> url, n |-> 0, what |-> what]
    /\ cyc' = [c EXCEPT !.fetches = Append(@, dest)]
    /\ pc' = "dl_get"

\* lines 325-334: create the version directory, then fetch the archive;
\* an error of os.makedirs is raised outside the try block
StageMkdir ==
    /\ pc = "stage_mk"
    /\ \E envOk \in BOOLEAN :
          LET vf == version_folder(Repo, rel.tag_name)
              r == makedirs(fs, vf, now, envOk)
          IN  /\ fs' = r.fs
              /\ IF r.err # "none"
                 THEN EndCycle([cyc EXCEPT !.raised = Raised(r.err, <<>>)],
                               "exc")
                 ELSE /\ StartFetch([cyc EXCEPT !.mkdirs = @ + 1],
                                    zip_path(Repo, rel.tag_name),
                                    ArchiveUrl(Repo, rel.tag_name), "archive")
                      /\ UNCHANGED <<idx, last, attempt, rel, ak>>
    /\ UNCHANGED <<now, cfg, remote, run, started, rmlog, prune>>

-----------------------------------------------------------------------------
(* download_file_with_progress *)

asset_path(repo, tag, asset) == Join(version_folder(repo, tag), asset.name)

\* the call returns True ("ok") or False ("fail"), or raises ("raise");
\* lines 334-347 and 356: what download_source_code does next
AfterFetch(res, opened) ==
    LET back == [some |-> TRUE, dest |-> dl.dest, url |-> dl.url, res |-> res,
                 opened |-> opened]
        c == IF dl.what = "archive"
             THEN [cyc EXCEPT !.archive = res, !.ret = back]
             ELSE [cyc EXCEPT !.assets = Append(@, res), !.ret = back]
        more == IF dl.what = "archive" THEN rel.assets # <<>>
                ELSE ak < Len(rel.assets)
    IN  IF res = "raise"
        THEN /\ pc' = "except" /\ cyc' = c /\ dl' = NoDownload
             /\ UNCHANGED <<idx, last, attempt, rel, ak>>
        ELSE IF dl.what = "archive" /\ res = "fail"
        THEN EndCycle(c, "None")
        ELSE IF more
        THEN /\ StartFetch(c, asset_path(Repo, rel.tag_name, rel.assets[ak + 1]),
                           rel.assets[ak + 1].url, "asset")
             /\ ak' = ak + 1
             /\ UNCHANGED <<idx, last, attempt, rel>>
        ELSE /\ pc' = "save" /\ cyc' = c /\ dl' = NoDownload
             /\ UNCHANGED <<idx, last, attempt, rel, ak>>

\* lines 185-186: the GET and raise_for_status
DlGet ==
    /\ pc = "dl_get"
    /\ \E ok \in BOOLEAN : pc' = IF ok THEN "dl_open" ELSE "dl_except"
    /\ UNCHANGED <<fs, now, cfg, remote, run, idx, attempt, rel, ak, dl, cyc, last,
                   started, rmlog, prune>>

\* line 189: open(local_filename, 'wb') creates or truncates the file
DlOpen ==
    /\ pc = "dl_open"
    /\ \E ok \in BOOLEAN :
          LET par == Resolve(fs, PSplit(dl.dest)[1])
              p == Append(par, PSplit(dl.dest)[2])
          IN  IF ok /\ par # NoPath /\ IsDir(fs, par) /\ ~IsDir(fs, p)
              THEN /\ fs' = Put(fs, p, DataNode(dl.url, 0), now)
                   /\ pc' = "dl_chunk"
              ELSE /\ pc' = "dl_except"
                   /\ UNCHANGED fs
    /\ UNCHANGED <<now, cfg, remote, run, idx, attempt, rel, ak, dl, cyc, last,
                   started, rmlog, prune>>

\* lines 191-195: write the next chunk; after the last one return True
DlChunk ==
    /\ pc = "dl_chunk"
    /\ \E ok \in BOOLEAN :
          LET p == Resolve(fs, dl.dest) IN
          IF ok
          THEN /\ fs' = [fs EXCEPT ![p].n = @ + 1]
               /\ IF dl.n + 1 >= NumChunks
                  THEN AfterFetch("ok", TRUE)
                  ELSE /\ dl' = [dl EXCEPT !.n = @ + 1]
                       /\ UNCHANGED <<pc, ak, cyc, idx, last, attempt, rel>>
          ELSE /\ pc' = "dl_except"
               /\ UNCHANGED <<fs, dl, ak, cyc, idx, last, attempt, rel>>
    /\ UNCHANGED <<now, cfg, remote, run, started, rmlog, prune>>

\* a handler that leaves the partial file where it is
KeepPartial(f, p, t) == f

\* lines 198-199: os.remove(local_filename) in the handler
remove_partial_file(f, p, t) == DelTree(f, p, t)

\* lines 196-200: log, remove the partial file, return False; an error of
\* os.remove leaves the handler as an exception
DlExcept ==
    /\ pc = "dl_except"
    /\ \E ok \in BOOLEAN :
          LET p == Resolve(fs, dl.dest) IN
          IF p = NoPath \/ ~Exists(fs, p)
          THEN /\ AfterFetch("fail", FALSE) /\ UNCHANGED fs
          ELSE IF ok /\ IsFile(fs, p)
          THEN /\ fs' = remove_partial_file(fs, p, now) /\ AfterFetch("fail", TRUE)
          ELSE /\ AfterFetch("raise", TRUE) /\ UNCHANGED fs
    /\ UNCHANGED <<now, cfg, remote, run, started, rmlog, prune>>

-----------------------------------------------------------------------------
(* Commit, retention, rollback *)

\* line 349: save_local_version; it returns normally whatever happens
Save ==
    /\ pc = "save"
    /\ \E o \in SaveOutcomes :
          LET r == save_local_version(fs, Repo, rel.tag_name, now, o) IN
          /\ fs' = r.fs
          /\ cyc' = [cyc EXCEPT
                        !.saveEnv = o,
                        !.writes = IF r.failed THEN @ ELSE @ + 1]
    /\ pc' = "clean_new"
    /\ UNCHANGED <<now, cfg, remote, run, idx, attempt, rel, ak, dl, last, started,
                   rmlog, prune>>

\* what the file system does to the entries a retention run deletes: one
\* kind of trouble, hitting any subset of them
PruneEnvs(n) ==
    {[j \in 1..n |-> IF j \in B THEN o ELSE "ok"] :
        B \in SUBSET (1..n), o \in RmOutcomes}

\* the number of entries a retention run will try to delete
NumDeletions(f, repo, c) ==
    LET r == clean_old_versions(f, repo, c, 0, TRUE,
                                [j \in 1..Cardinality(VersionDirs(f, repo)) |-> "unlistable"])
    IN  Len(r.calls)

Cleaned(c) ==
    [c EXCEPT !.cleaned = @ + 1, !.cleanedAfterWrite = c.writes > 0]

\* lines 351-354: retention after the commit, inside the try block
CleanNew ==
    /\ pc = "clean_new"
    /\ \E readOk \in BOOLEAN,
          env \in PruneEnvs(NumDeletions(fs, Repo, cfg)) :
          LET r == clean_old_versions(fs, Repo, cfg, now, readOk, env) IN
          /\ fs' = r.fs
          /\ IF r.exc # "none"
             THEN /\ pc' = "except"
                  /\ cyc' = Cleaned(cyc)
                  /\ UNCHANGED <<idx, last, attempt, rel, ak, dl>>
             ELSE EndCycle(Cleaned(cyc), "True")
    /\ UNCHANGED <<now, cfg, remote, run, started, rmlog, prune>>

\* lines 307-311: the stored version is the latest; retention, return True
CleanSame ==
    /\ pc = "clean_same"
    /\ \E readOk \in BOOLEAN,
          env \in PruneEnvs(NumDeletions(fs, Repo, cfg)) :
          LET r == clean_old_versions(fs, Repo, cfg, now, readOk, env) IN
          /\ fs' = r.fs
          /\ IF r.exc # "none"
             THEN EndCycle([Cleaned(cyc) EXCEPT !.raised = Raised(r.exc, <<>>)],
                           "exc")
             ELSE EndCycle(Cleaned(cyc), "True")
    /\ UNCHANGED <<now, cfg, remote, run, started, rmlog, prune>>

\* lines 356-360: an exception inside the try block: delete the version
\* directory and return False
Except ==
    /\ pc = "except"
    /\ \E o \in RmOutcomes :
          LET vf == version_folder(Repo, rel.tag_name)
              r == safe_remove_dir(fs, vf, now, o)
          IN  /\ fs' = r.fs
              /\ IF r.exc # "none"
                 THEN EndCycle([cyc EXCEPT !.rolled = TRUE,
                                           !.raised = Raised(r.exc, <<>>)],
                               "exc")
                 ELSE EndCycle([cyc EXCEPT !.rolled = TRUE], "False")
    /\ UNCHANGED <<now, cfg, remote, run, started, rmlog, prune>>

-----------------------------------------------------------------------------
(* The process and its environment *)

Running == pc \notin {"finished", "interrupted"}

\* lines 384-385: KeyboardInterrupt ends the program wherever it is; no
\* handler of backup.py catches it, so nothing is cleaned up
Interrupt ==
    /\ Running
    /\ pc' = "interrupted"
    /\ UNCHANGED <<fs, now, cfg, remote, run, idx, attempt, rel, ak, dl, cyc, last,
                   started, rmlog, prune>>

\* the program is started again: GitHubBackup() and a new monitor_repos
NewRun ==
    /\ ~Running
    /\ run < MaxRuns
    /\ run' = run + 1
    /\ LET r == makedirs(fs, DOWNLOAD_DIR, now, TRUE) IN
       /\ fs' = r.fs
       /\ pc' = IF r.err # "none" THEN "finished" ELSE "loop"
    /\ idx' = 1
    /\ attempt' = 0
    /\ rel' = NoRelease
    /\ ak' = 0
    /\ dl' = NoDownload
    /\ cyc' = NoCycle
    /\ started' = <<>>
    /\ UNCHANGED <<now, cfg, remote, last, rmlog, prune>>

\* time passes between two cycles (line 379 sleeps there)
Tick ==
    /\ pc = "loop"
    /\ now < MaxClock
    /\ now' = now + 1
    /\ UNCHANGED <<fs, cfg, remote, pc, run, idx, attempt, rel, ak, dl, cyc, last,
                   started, rmlog, prune>>

Step ==
    \/ LoopNext
    \/ PollRelease
    \/ PollAbsent
    \/ PollError
    \/ Compare
    \/ StageRemove
    \/ StageMkdir
    \/ DlGet
    \/ DlOpen
    \/ DlChunk
    \/ DlExcept
    \/ Save
    \/ CleanNew
    \/ CleanSame
    \/ Except

\* one run of the program, which may be interrupted
Next ==
    \/ Step
    \/ Interrupt
    \/ Tick

Spec == Init /\ [][Next]_vars

\* the program run again and again, from a fresh download directory
InitAgain == InitOf(EmptyDisk, <<RepoW>>, TwinReleases)

NextAgain ==
    \/ Step
    \/ NewRun

SpecAgain == InitAgain /\ [][NextAgain]_vars

-----------------------------------------------------------------------------
(* safe_remove_dir called on its own, with any path *)

Sibling == <<"downloads", "_", "o">>
Other == <<"o">>

\* a working directory that holds the downloads root with one mirrored
\* release, a sibling directory whose name begins with the root's name, and
\* an unrelated directory
SharedDisk ==
    LET root == abspath(RepoDir(RepoW))
        vdir == abspath(version_folder(RepoW, TagV1))
        zip == abspath(zip_path(RepoW, TagV1))
        ver == abspath(VersionFile(RepoW))
        sib == abspath(Sibling)
        sibk == abspath(Join(Sibling, <<"a">>))
        oth == abspath(Other)
    IN  [q \in {<<>>, CWD, Downloads, root, vdir, zip, ver, sib, sibk, oth} |->
            IF q = zip THEN DataNode(ArchiveUrl(RepoW, TagV1), NumChunks)
            ELSE IF q = ver THEN TextNode(TagV1)
            ELSE DirNode(0)]

\* the paths safe_remove_dir is called with: inside the root, the root,
\* outside it, relative and absolute, with and without ".."
RemovePaths ==
    {DOWNLOAD_DIR,
     RepoDir(RepoW),
     version_folder(RepoW, TagV1),
     version_folder(RepoW, TagDots),
     version_folder(RepoW, TagV2),
     VersionFile(RepoW),
     Sibling,
     Join(Sibling, <<"a">>),
     <<"/", "cwd", "/">> \o Sibling,
     Other,
     DotDot,
     Join(Join(DOWNLOAD_DIR, DotDot), Other)}

LogCall(f, s, o, r) ==
    [path |-> s, env |-> o, exc |-> r.exc, tried |-> r.tried, before |-> f,
     made |-> TRUE]

\* one call safe_remove_dir(s)
RemoveCall ==
    /\ pc = "call"
    /\ \E s \in RemovePaths, o \in RmOutcomes :
          LET r == safe_remove_dir(fs, s, now, o) IN
          /\ fs' = r.fs
          /\ rmlog' = LogCall(fs, s, o, r)
    /\ UNCHANGED <<now, cfg, remote, pc, run, idx, attempt, rel, ak, dl, cyc, last,
                   started, prune>>

InitRemove ==
    /\ fs = SharedDisk
    /\ cfg = ShippedConfig
    /\ remote = RemoteOf(AllReleases)
    /\ pc = "call"
    /\ Idle

NextRemove == RemoveCall

SpecRemove == InitRemove /\ [][NextRemove]_vars

-----------------------------------------------------------------------------
(* clean_old_versions called on its own, on any repository root *)

PruneNames == {<<"a">>, <<"b">>, TagV1}

\* what version.txt may hold: a tag, nothing, only whitespace
PruneRecords == {TagV1, <<>>, <<" ">>}

\* a plain file that is not version.txt
Notes == <<"n", "o", "t", "e", "s">>

\* what the second repository has on disk: its version.txt and one version
\* directory
OtherRepoPaths ==
    {abspath(RepoDir(RepoX)), abspath(VersionFile(RepoX)),
     abspath(version_folder(RepoX, TagV1))}

\* a repository root with the version directories D (name -> modification
\* time, -1 for a name that is absent), version.txt as given and a plain
\* file beside it; the second repository's root next to it
PruneDisk(D, hasRecord, text) ==
    LET root == abspath(RepoDir(RepoW))
        ver == abspath(VersionFile(RepoW))
        dirs == {Append(root, n) : n \in {m \in PruneNames : D[m] >= 0}}
        files == (IF hasRecord THEN {ver} ELSE {}) \cup {Append(root, Notes)}
    IN  [q \in {<<>>, CWD, Downloads, root} \cup dirs \cup files
                 \cup OtherRepoPaths |->
            IF q \in dirs THEN DirNode(D[q[Len(q)]])
            ELSE IF q = ver THEN TextNode(text)
            ELSE IF q = abspath(VersionFile(RepoX)) THEN TextNode(TagV1)
            ELSE IF q = Append(root, Notes) THEN TextNode(<<>>)
            ELSE DirNode(0)]

\* the downloads root without a root of the first repository
NoRootDisk ==
    [q \in {<<>>, CWD, Downloads} \cup OtherRepoPaths |->
        IF q = abspath(VersionFile(RepoX)) THEN TextNode(TagV1) ELSE DirNode(0)]

PruneDisks ==
    {PruneDisk(D, h, t) :
        D \in [PruneNames -> (-1)..MaxClock], h \in BOOLEAN, t \in PruneRecords}
    \cup {NoRootDisk}

\* config.py as shipped, and every configuration that defines both names
PruneConfigs ==
    {ShippedConfig} \cup {c \in SuppliedConfigs : c.repos = <<RepoW>>}

LogPrune(f, repo, r, env, readOk) ==
    [repo |-> repo, why |-> r.why, exc |-> r.exc, before |-> f,
     sorted |-> r.sorted, calls |-> r.calls, env |-> env, readOk |-> readOk,
     made |-> TRUE]

\* one call clean_old_versions(repo)
PruneCall ==
    /\ pc = "call"
    /\ \E readOk \in BOOLEAN,
          env \in PruneEnvs(NumDeletions(fs, RepoW, cfg)) :
          LET r == clean_old_versions(fs, RepoW, cfg, now, readOk, env) IN
          /\ fs' = r.fs
          /\ prune' = LogPrune(fs, RepoW, r, env, readOk)
    /\ UNCHANGED <<now, cfg, remote, pc, run, idx, attempt, rel, ak, dl, cyc, last,
                   started, rmlog>>

InitPrune ==
    /\ fs \in PruneDisks
    /\ cfg \in PruneConfigs
    /\ remote = RemoteOf(AllReleases)
    /\ pc = "call"
    /\ Idle

NextPrune == PruneCall

SpecPrune == InitPrune /\ [][NextPrune]_vars

-----------------------------------------------------------------------------
(* monitor_repos left to run to its end *)

\* the shipped configuration and one with retention on, each with one
\* repository and with two
FairConfigs ==
    {[c EXCEPT !.repos = l] :
        c \in {ShippedConfig, [ShippedConfig EXCEPT !.clean = "on",
                                                   !.keepDefined = TRUE,
                                                   !.keep = 1]},
        l \in RepoLists}

InitFair ==
    /\ fs = MirroredDisk
    /\ cfg \in FairConfigs
    /\ remote = RemoteOf(TwinReleases)
    /\ pc = "loop"
    /\ Idle

NextFair == Step

\* the positions of the thread of control
Positions ==
    {"loop", "poll", "compare", "stage_rm", "stage_mk", "dl_get", "dl_open",
     "dl_chunk", "dl_except", "save", "clean_new", "clean_same", "except",
     "finished", "interrupted", "call"}

\* the thread leaves its position
Move == Running /\ pc' \in Positions /\ pc' # pc

\* every call the program makes returns (the requests carry a timeout, the
\* retry loop is bounded), so the thread never stays at one position for
\* ever
SpecFair == InitFair /\ [][NextFair]_vars /\ WF_pc(Move)

-----------------------------------------------------------------------------
(* Properties of a cycle *)

\* the tag stored for repository r, when the file can be read
VersionRecord(r) == get_local_version_raw(fs, r, TRUE)

\* the file at path string s holds the whole body of resource url
WholeFile(f, s, url) ==
    LET z == Resolve(f, s) IN
    /\ z # NoPath
    /\ IsFile(f, z)
    /\ f[z].src = url
    /\ f[z].n = NumChunks

\* the version directory of tag t of repository r holds the whole archive
ArchiveComplete(f, r, t) ==
    /\ PathIsDir(f, version_folder(r, t))
    /\ WholeFile(f, zip_path(r, t), ArchiveUrl(r, t))

\* a cycle that went as far as fetching the source archive has ended
FetchedCycleDone == cyc.done /\ cyc.archive # "none"

\* the cycle wrote the new tag to version.txt and it is what is stored
WroteNewTag == cyc.writes > 0 /\ VersionRecord(cyc.repo) = Some(cyc.tag)

\* the environment let every write of version.txt through
NoWriteFault == cyc.saveEnv \in {"none", "ok"}

\* C1: at the end of a cycle that fetched the archive, version.txt was
\* written with the new tag if and only if the archive fetch succeeded, and
\* after a failed archive fetch version.txt still holds what it held when
\* the cycle began (stated for the cycles whose write of version.txt, if
\* any, met no I/O error)
C1_CommitIffArchiveSucceeded ==
    (FetchedCycleDone /\ NoWriteFault) =>
        /\ WroteNewTag <=> cyc.archive = "ok"
        /\ cyc.archive # "ok" => VersionRecord(cyc.repo) = cyc.verBefore

\* C2: whenever version.txt of a repository holds tag T, the version
\* directory of T exists and holds the completely written archive of T
\* (stated for the runs in which every read of version.txt succeeded)
C2_CommittedVersionConsistent ==
    ~cyc.readFault =>
        \A r \in RepoSet :
            (VersionRecord(r).some /\ VersionRecord(r).val # <<>>) =>
                ArchiveComplete(fs, r, VersionRecord(r).val)

\* C4: a cycle whose archive fetch returned failure has deleted the staged
\* version directory through safe_remove_dir and ended in failure
C4_RollbackOnFailedArchive ==
    (cyc.done /\ cyc.archive = "fail") =>
        /\ cyc.rolled
        /\ ~PathExists(fs, version_folder(cyc.repo, cyc.tag))
        /\ cyc.result \in {"False", "None", "exc"}

\* C9: a cycle in which writing version.txt failed does not report success
C9_WriteFailureAbortsCycle ==
    (cyc.done /\ ~NoWriteFault) => cyc.result # "True"

\* a call of download_file_with_progress has just returned to
\* download_source_code, which has not touched the disk since
JustReturned ==
    /\ cyc.ret.some
    /\ cyc.ret.res \in {"ok", "fail"}
    /\ \/ pc \in {"dl_get", "save"}
       \/ pc = "loop" /\ cyc.done /\ cyc.archive = "fail"

\* C6: when download_file_with_progress returns False nothing exists at its
\* destination path, and when it returns True the file at the destination
\* holds every chunk of the response
C6_NoPartialArtifact ==
    JustReturned =>
        /\ cyc.ret.res = "fail" => ~PathExists(fs, cyc.ret.dest)
        /\ cyc.ret.res = "ok" => WholeFile(fs, cyc.ret.dest, cyc.ret.url)

\* a fetch failed after its file had been created, and has returned False
C6_FailedAfterOpen ==
    JustReturned /\ cyc.ret.res = "fail" /\ cyc.ret.opened

\* the current cycle polled the tag that the previous cycle of the same
\* repository committed, and version.txt is readable
SecondCycleSameTag ==
    /\ cyc.polled = "release"
    /\ ~cyc.done
    /\ last[cyc.repo].committed
    /\ last[cyc.repo].tag = cyc.tag
    /\ ~cyc.readFault

\* C7: a cycle that finds the remote tag equal to the tag committed by the
\* previous cycle fetches nothing, creates no directory and does not write
\* version.txt
C7_SecondCycleIdempotent ==
    SecondCycleSameTag =>
        /\ cyc.fetches = <<>>
        /\ cyc.mkdirs = 0
        /\ cyc.saveEnv = "none"

\* the destinations of the fetches of a whole cycle: the archive, then the
\* assets in the order of the release's list
AllFetches ==
    <<zip_path(cyc.repo, cyc.tag)>> \o
    [j \in 1..Len(cyc.listed) |-> asset_path(cyc.repo, cyc.tag, cyc.listed[j])]

\* C14: the archive is fetched first and no asset before the archive fetch
\* succeeded; the fetches made are, in order and each once, the archive and
\* then the assets of the list; and a cycle whose archive fetch succeeded
\* ends with every asset fetched, whichever of them failed, and with the new
\* tag written to version.txt (stated for the cycles whose write of
\* version.txt met no I/O error)
C14_ArchiveFirstAssetsTolerated ==
    /\ IsPrefix(cyc.fetches, AllFetches)
    /\ Len(cyc.fetches) > 1 => cyc.archive = "ok"
    /\ (cyc.done /\ cyc.archive = "ok" /\ NoWriteFault) =>
           /\ cyc.fetches = AllFetches
           /\ Len(cyc.assets) = Len(cyc.listed)
           /\ cyc.saveEnv = "ok"
           /\ cyc.writes = 1

\* C16: a cycle that found the stored version equal to the remote tag, and
\* a cycle whose archive fetch succeeded, has called clean_old_versions
\* once when it ends, after the write of version.txt if it made one, and
\* ends with True
C16_RetentionFollowsAndSucceeds ==
    (cyc.done /\ (cyc.unchanged \/ cyc.archive = "ok")) =>
        /\ cyc.cleaned = 1
        /\ cyc.writes > 0 => cyc.cleanedAfterWrite
        /\ cyc.result = "True"

\* the cycle has ended and its poll found no release
EndedWithoutRelease == cyc.done /\ cyc.polled \in {"absent", "neterror"}

\* the disk on which the cycle of Spec begins: Spec runs monitor_repos
\* once, over one repository
DiskBefore == MirroredDisk

\* C12: a cycle whose poll yields "absent" or ends in NetworkError leaves
\* every file and directory as it was when the cycle began, fetches
\* nothing, deletes nothing, writes no version.txt, and ends
C12_NoChangeWithoutRelease ==
    EndedWithoutRelease =>
        /\ fs = DiskBefore
        /\ cyc.fetches = <<>>
        /\ cyc.mkdirs = 0
        /\ cyc.staleRm = "none"
        /\ cyc.saveEnv = "none"
        /\ cyc.cleaned = 0
        /\ ~cyc.rolled
        /\ cyc.result = IF cyc.polled = "absent" THEN "False" ELSE "exc"

\* a cycle of a repository that has a mirrored release on disk ended
\* because the answer carried no tag
C12_AbsentOnMirroredDisk ==
    /\ EndedWithoutRelease
    /\ cyc.polled = "absent"
    /\ VersionDirs(DiskBefore, cyc.repo) # {}
    /\ Truthy(cyc.verBefore)

\* the archive fetch of the current cycle has been started and has not yet
\* touched the disk
ArchiveFetchStarts == pc = "dl_get" /\ dl.what = "archive"

\* the version directory the current cycle stages
StagedDir == Resolve(fs, version_folder(cyc.repo, cyc.tag))

\* the version directory of tag t of repository r is a child of the
\* repository root
ChildOfRoot(r, t) ==
    /\ Len(abspath(version_folder(r, t))) = Len(abspath(RepoDir(r))) + 1
    /\ IsPrefix(abspath(RepoDir(r)), abspath(version_folder(r, t)))

\* the tag the current cycle polled is not the one stored when it began
NewTag == get_local_version(DiskBefore, cyc.repo, TRUE) # Some(cyc.tag)

\* C13: when the archive fetch for a new tag starts the staged version
\* directory exists and is empty, whatever was left under that name by an
\* earlier run and however the deletion of the stale directory went (stated
\* for the tags whose version directory is a child of the repository root)
C13_StagedDirectoryEmpty ==
    (ArchiveFetchStarts /\ NewTag /\ ChildOfRoot(cyc.repo, cyc.tag)) =>
        /\ StagedDir # NoPath
        /\ IsDir(fs, StagedDir)
        /\ Entries(fs, StagedDir) = {}

\* the version directories that repository r had when the cycle began,
\* other than the one of tag t
OtherVersionDirs(r, t) ==
    {d \in VersionDirs(DiskBefore, r) : d.item # safe_tag_name(t)}

\* the cycle has a release and has neither written version.txt nor run
\* retention: whatever it did to the disk was staging, delete-if-exists or
\* rollback
OnlyStaged ==
    cyc.polled = "release" /\ cyc.saveEnv = "none" /\ cyc.cleaned = 0

\* C18: for every tag the poll returns the version directory is a child of
\* the repository root, and staging, delete-if-exists and rollback leave
\* version.txt and the other version directories as they were
C18_VersionDirConfined ==
    OnlyStaged =>
        /\ ChildOfRoot(cyc.repo, cyc.tag)
        /\ VersionRecord(cyc.repo) = cyc.verBefore
        /\ \A d \in OtherVersionDirs(cyc.repo, cyc.tag) : PathIsDir(fs, d.path)

-----------------------------------------------------------------------------
(* Properties of monitor_repos *)

\* the sleeps of the call of get_latest_release in progress are
\* RETRY_DELAY * k after the k-th failed attempt, k = 1, 2, ...
LinearWaits ==
    cyc.waits = [k \in 1..Len(cyc.waits) |-> RETRY_DELAY * k]

\* while get_latest_release runs, every request made so far has failed and
\* was followed by its sleep, and at least one request is left
Polling ==
    (pc = "poll") =>
        /\ Len(cyc.waits) = attempt
        /\ attempt < MAX_DOWNLOAD_ATTEMPTS

\* a failed request that is not the last one: sleep, and ask again
RetryStep ==
    (pc = "poll" /\ pc' = "poll") =>
        /\ attempt + 1 < MAX_DOWNLOAD_ATTEMPTS
        /\ attempt' = attempt + 1
        /\ cyc'.waits = Append(cyc.waits, RETRY_DELAY * (attempt + 1))

\* get_latest_release ends: with NetworkError naming the repository after
\* MAX_DOWNLOAD_ATTEMPTS failed requests and with no release, or else with
\* the answer to the request just made, whatever number it had
PollEndStep ==
    (pc = "poll" /\ pc' \notin {"poll", "interrupted"}) =>
        /\ cyc'.polled \in {"release", "absent", "neterror"}
        /\ cyc'.polled = "neterror" <=>
               cyc'.raised = Raised("NetworkError", cyc.repo)
        /\ cyc'.polled = "neterror" =>
               /\ attempt + 1 = MAX_DOWNLOAD_ATTEMPTS
               /\ cyc'.result = "exc"
               /\ cyc'.tag = <<>>
               /\ rel' = NoRelease
        /\ cyc'.polled = "absent" => cyc'.tag = <<>> /\ rel' = NoRelease

\* C11: get_latest_release makes at most MAX_DOWNLOAD_ATTEMPTS requests;
\* after the k-th failed one (k < MAX_DOWNLOAD_ATTEMPTS) it sleeps
\* RETRY_DELAY * k and asks again; the first answer ends the loop; when
\* every attempt failed it raises NetworkError naming the repository and
\* yields neither a release nor "absent"
C11_BoundedRetry ==
    /\ [](LinearWaits /\ Polling)
    /\ [][RetryStep /\ PollEndStep]_vars

\* every attempt of a poll failed and NetworkError was raised
C11_RetriesExhausted ==
    /\ cyc.done
    /\ cyc.polled = "neterror"
    /\ cyc.raised = Raised("NetworkError", cyc.repo)

\* C8: the cycles started so far are the first repositories of the
\* configured list, each once and in order; monitor_repos ends only after
\* the cycle of every configured repository was started; and it does end,
\* whatever happens inside the cycles
C8_EveryRepositoryGetsItsCycle ==
    /\ [](IsPrefix(started, cfg.repos))
    /\ [](pc = "finished" => started = cfg.repos)
    /\ <>(pc = "finished")

\* monitor_repos has ended after the cycle of the first of two repositories
\* ended with an exception and the cycle of the second one was run
C8_SecondCycleAfterException ==
    /\ pc = "finished"
    /\ Len(cfg.repos) = 2
    /\ started = cfg.repos
    /\ last[cfg.repos[1]].result = "exc"
    /\ last[cfg.repos[2]].some

-----------------------------------------------------------------------------
(* Properties of safe_remove_dir *)

\* the absolute path p is the downloads root or lies below it
UnderRoot(p) == IsPrefix(Downloads, p)

\* C3: a call of safe_remove_dir with a path that is neither the downloads
\* root nor below it raises SecurityError, tries no deletion strategy and
\* leaves the file system as it was
C3_OutsidePathsRefused ==
    (rmlog.made /\ ~UnderRoot(abspath(rmlog.path))) =>
        /\ rmlog.exc = "SecurityError"
        /\ rmlog.tried = <<>>
        /\ fs = rmlog.before

\* the deletion strategies in the order of escalation
Strategies == <<"rmtree", "rmtree_onerror", "oscmd">>

\* the last call was made on an existing directory below (or equal to) the
\* downloads root whose entries could be listed
RemovedListableDir ==
    /\ rmlog.made
    /\ UnderRoot(abspath(rmlog.path))
    /\ IsDir(rmlog.before, abspath(rmlog.path))
    /\ rmlog.env # "unlistable"

\* C15: on an existing, listable directory inside the sandbox the
\* strategies are tried in the order rmtree, rmtree with remove_readonly,
\* OS command; the OS command is run when both rmtree calls were made and
\* left the directory in place, and only then; its non-zero exit raises
\* nothing
C15_EscalatesToOsDelete ==
    RemovedListableDir =>
        /\ rmlog.tried # <<>>
        /\ IsPrefix(rmlog.tried, Strategies)
        /\ rmlog.tried = SubSeq(Strategies, 1, 2) =>
               ~Exists(fs, abspath(rmlog.path))
        /\ rmlog.env = "os_fail" =>
               rmlog.tried = Strategies /\ rmlog.exc = "none"

-----------------------------------------------------------------------------
(* Properties of clean_old_versions *)

\* the version directories before and after the last retention run
DirsBefore == VersionDirs(prune.before, prune.repo)
DirsAfter == VersionDirs(fs, prune.repo)

\* d was modified before e, or at the same time and its name sorts first
Older(d, e) ==
    \/ d.mtime < e.mtime
    \/ d.mtime = e.mtime /\ StrLess(d.item, e.item)

\* the k directories of S modified most recently, ties by name descending
MostRecent(S, k) == {d \in S : Cardinality({e \in S : Older(d, e)}) < k}

\* retention ran switched on and every deletion it tried succeeded at once
PruneRanClean ==
    /\ prune.made
    /\ cfg.clean = "on"
    /\ \A j \in DOMAIN prune.env : prune.env[j] = "ok"

\* the retention run found a tag in version.txt
RecordUsable ==
    Truthy(get_local_version(prune.before, prune.repo, prune.readOk))

OutsideWindow ==
    {d.item : d \in DirsBefore \ MostRecent(DirsBefore, cfg.keep)}

\* the last retention run came to delete entries
PrunedSome == prune.made /\ prune.why = "pruned" /\ cfg.keep >= 0

\* C17: a retention run calls safe_remove_dir once for every entry outside
\* the keep-window, one entry per call, whichever of the calls raise; an
\* entry whose own deletion met no trouble is gone afterwards; and the run
\* returns without raising
C17_BestEffortPruning ==
    PrunedSome =>
        /\ Len(prune.calls) = Cardinality(OutsideWindow)
        /\ {prune.calls[j].item : j \in DOMAIN prune.calls} = OutsideWindow
        /\ \A j \in DOMAIN prune.calls :
               prune.env[j] = "ok" =>
                   prune.calls[j].item \notin {d.item : d \in DirsAfter}
        /\ prune.exc = "none"

\* the first deletion of a run raised and the second entry was deleted
C17_DeletedAfterFailure ==
    /\ PrunedSome
    /\ Len(prune.calls) >= 2
    /\ prune.calls[1].exc # "none"
    /\ prune.env[2] = "ok"
    /\ prune.calls[2].item \notin {d.item : d \in DirsAfter}

\* the root of the repository of the last retention run
PruneRoot == abspath(RepoDir(prune.repo))

\* path q lies in a directory that is an immediate entry of the root
InVersionDir(q) ==
    /\ Len(q) > Len(PruneRoot)
    /\ IsPrefix(PruneRoot, q)
    /\ IsDir(prune.before, SubSeq(q, 1, Len(PruneRoot) + 1))

\* C19: a retention run removes nothing but immediate subdirectories of the
\* repository root (with what they hold) and adds nothing; version.txt,
\* the other plain files of the root and everything of other repositories
\* are as before; when the root does not exist the run changes nothing and
\* raises nothing
C19_PruneFrame ==
    prune.made =>
        /\ DOMAIN fs \subseteq DOMAIN prune.before
        /\ \A q \in DOMAIN prune.before :
               (~InVersionDir(q) /\ q # PruneRoot) =>
                   q \in DOMAIN fs /\ fs[q] = prune.before[q]
        /\ ~Exists(prune.before, PruneRoot) =>
               fs = prune.before /\ prune.exc = "none"

\* C10: a retention run with keep-count K <= 0 on a root with at least one
\* version directory leaves no version directory
C10_NonPositiveKeepDeletesAll ==
    (PruneRanClean /\ RecordUsable /\ cfg.keep <= 0 /\ DirsBefore # {}) =>
        DirsAfter = {}

====
